---- MODULE Spec2Model ----
(***************************************************************************)
(* A model of LeafDB (src/src/model.js): the in-memory table `this.data`,  *)
(* soft deletion, and the load / persist round trip to the backing file.   *)
(*                                                                         *)
(* Strings are sequences of symbols.  A symbol is one character that JSON  *)
(* treats specially (backslash, double quote, newline, the structural      *)
(* characters) or a run of ordinary letters that nothing ever splits       *)
(* ("k1", "_id", "x").  The empty string is << >>.                         *)
(* A document is a function from field names to values; a value is a       *)
(* string, the number 5 (as an _id read from the file), TRUE (the $deleted *)
(* marker) or a nested document (under $set).                              *)
(***************************************************************************)
EXTENDS Integers, Sequences, FiniteSets, TLC

VARIABLES
  root,     \* this.root is set (file-backed) or null (in-memory)
  strict,   \* this.strict
  data,     \* this.data: the entries <<key, doc>> in property (insertion) order
  file,     \* the backing file: whether it exists, and its content
  last      \* the call whose outcome the caller holds: arguments and outcome

vars == <<root, strict, data, file, last>>

----------------------------------------------------------------------------
(* Bounds of the model *)

\* longest array passed to insert, findById, updateById, deleteById
MaxBatch == 2

----------------------------------------------------------------------------
(* Characters and strings *)

BS == "\\"
QT == "\""
NL == "\n"

EmptyString == << >>
K1 == <<"k1">>
\* the second identifier is the string '5', the property name of the number 5 as well
K2 == <<"5">>

\* the identifiers that callers pass and that getUid may return
Keys == {K1, K2}

EmptyDoc == [f \in {} |-> EmptyString]

\* field names that start with `$`, and field names that contain `.`
DollarNames == {"$deleted", "$set", "$add", "$push", "$bad"}
DottedNames == {"a.b"}

\* !value, for a string
Falsy(s) == s = EmptyString

\* the number 5, as JSON.parse returns it for the text 5: a value that is not a
\* string, written as one symbol that no string holds
Five == <<"#5">>

\* typeof value === 'string'
IsString(v) == v # Five

\* the property name that this.data[value] uses: the value converted to a string
ToKey(v) == IF v = Five THEN <<"5">> ELSE v

\* An argument of a call that may or may not be an object.
JSObject(d) == [obj |-> TRUE, doc |-> d]
JSNumber == [obj |-> FALSE, doc |-> EmptyDoc]

\* projection = null, or an array of field names
NullProjection == [null |-> TRUE, fields |-> << >>]
Projection(fs) == [null |-> FALSE, fields |-> fs]

----------------------------------------------------------------------------
(* this.data, a JavaScript object used as a hash table *)

Has(table, key) == \E i \in 1..Len(table) : table[i].key = key

IndexOf(table, key) == CHOOSE i \in 1..Len(table) : table[i].key = key

Get(table, key) == table[IndexOf(table, key)].doc

\* table[key] = doc: a new property goes last, an existing one keeps its place
Put(table, key, doc) ==
  IF Has(table, key)
  THEN [table EXCEPT ![IndexOf(table, key)] = [key |-> key, doc |-> doc]]
  ELSE Append(table, [key |-> key, doc |-> doc])

\* doc.$deleted is truthy
Deleted(doc) == "$deleted" \in DOMAIN doc /\ doc["$deleted"] = TRUE

\* { ...doc, $deleted: true }
Tombstone(doc) ==
  [f \in DOMAIN doc \cup {"$deleted"} |-> IF f = "$deleted" THEN TRUE ELSE doc[f]]

\* { ...newDoc, _id: key }
Stamp(newDoc, key) ==
  [f \in DOMAIN newDoc \cup {"_id"} |-> IF f = "_id" THEN key ELSE newDoc[f]]

IsLive(table, key) == Has(table, key) /\ ~Deleted(Get(table, key))

LiveKeys(table) == {k \in {table[i].key : i \in 1..Len(table)} : IsLive(table, k)}

TombstonedKeys(table) ==
  {k \in {table[i].key : i \in 1..Len(table)} : Deleted(Get(table, k))}

RECURSIVE LiveDocs(_)
\* Object.values(table) without the tombstoned documents
LiveDocs(table) ==
  IF table = << >> THEN << >>
  ELSE IF Deleted(Head(table).doc) THEN LiveDocs(Tail(table))
  ELSE <<Head(table).doc>> \o LiveDocs(Tail(table))

----------------------------------------------------------------------------
(* validation.js and modifiers.js *)

isObject(v) == v.obj

isEmptyObject(v) == v.obj /\ DOMAIN v.doc = {}

\* a field name starts with `$` or contains `.`
isInvalidDoc(doc) == \E f \in DOMAIN doc : f \in DollarNames \cup DottedNames

Modifiers == {"$set", "$add", "$push"}

hasModifiers(doc) == \E f \in DOMAIN doc : f \in Modifiers

hasMixedModifiers(doc) ==
  /\ \E f \in DOMAIN doc : f \in Modifiers
  /\ \E f \in DOMAIN doc : f \notin Modifiers

\* every field of the query is a field of the document with an equal value
isQueryMatch(doc, query) ==
  \A f \in DOMAIN query : f \in DOMAIN doc /\ doc[f] = query[f]

\* $set: each named field is set to the given value
objectModify(doc, update) ==
  LET set == IF "$set" \in DOMAIN update THEN update["$set"] ELSE EmptyDoc
  IN  [f \in DOMAIN doc \cup DOMAIN set |-> IF f \in DOMAIN set THEN set[f] ELSE doc[f]]

\* projection null: the document itself; else only the fields named
objectProject(doc, projection) ==
  IF projection.null THEN doc
  ELSE LET named == {projection.fields[i] : i \in 1..Len(projection.fields)}
       IN  [f \in DOMAIN doc \cap named |-> doc[f]]

----------------------------------------------------------------------------
(* The record of the last call *)

NoCall ==
  [op |-> "none", status |-> "returned",
   single |-> FALSE, items |-> << >>, persist |-> FALSE,
   ids |-> << >>, query |-> JSObject(EmptyDoc), update |-> JSObject(EmptyDoc),
   projection |-> NullProjection,
   uid |-> << >>, defined |-> TRUE,
   result |-> << >>, count |-> 0, corrupted |-> << >>,
   pre |-> << >>, preFile |-> [exists |-> FALSE, content |-> << >>]]

\* a call of the method op on the instance as it is now
Call(op) == [NoCall EXCEPT !.op = op, !.pre = data, !.preFile = file]

----------------------------------------------------------------------------
(* JSON.stringify and JSON.parse, for documents of string fields *)

\* the properties of a document, in the order they are written
FieldOrder == <<"_id", "v", "$deleted">>

EscapeChar(c) ==
  IF c = BS THEN <<BS, BS>>
  ELSE IF c = QT THEN <<BS, QT>>
  ELSE IF c = NL THEN <<BS, "n">>
  ELSE <<c>>

RECURSIVE EscapeString(_)
EscapeString(s) ==
  IF s = << >> THEN << >> ELSE EscapeChar(Head(s)) \o EscapeString(Tail(s))

Quote(s) == <<QT>> \o EscapeString(s) \o <<QT>>

stringifyValue(f, v) ==
  IF f = "$deleted" THEN <<"true">>
  ELSE IF v = Five THEN <<"5">>
  ELSE Quote(v)

RECURSIVE stringifyMembers(_, _, _)
stringifyMembers(doc, i, first) ==
  IF i > Len(FieldOrder) THEN << >>
  ELSE IF FieldOrder[i] \notin DOMAIN doc THEN stringifyMembers(doc, i + 1, first)
  ELSE (IF first THEN << >> ELSE <<",">>)
       \o Quote(<<FieldOrder[i]>>) \o <<":">>
       \o stringifyValue(FieldOrder[i], doc[FieldOrder[i]])
       \o stringifyMembers(doc, i + 1, FALSE)

\* JSON.stringify(doc)
stringify(doc) == <<"{">> \o stringifyMembers(doc, 1, TRUE) \o <<"}">>

ParseError == [ok |-> FALSE, val |-> << >>, next |-> 0]

RECURSIVE parseChars(_, _, _)
\* the characters of a JSON string, from position i, up to its closing quote
parseChars(s, i, acc) ==
  IF i > Len(s) THEN ParseError
  ELSE IF s[i] = QT THEN [ok |-> TRUE, val |-> acc, next |-> i + 1]
  ELSE IF s[i] = NL THEN ParseError
  ELSE IF s[i] = BS THEN
    IF i + 1 > Len(s) THEN ParseError
    ELSE IF s[i + 1] = BS THEN parseChars(s, i + 2, Append(acc, BS))
    ELSE IF s[i + 1] = QT THEN parseChars(s, i + 2, Append(acc, QT))
    ELSE IF s[i + 1] = "n" THEN parseChars(s, i + 2, Append(acc, NL))
    ELSE ParseError
  ELSE parseChars(s, i + 1, Append(acc, s[i]))

parseString(s, i) ==
  IF i <= Len(s) /\ s[i] = QT THEN parseChars(s, i + 1, << >>) ELSE ParseError

\* a property name is one run of letters
parseName(s, i) ==
  LET r == parseString(s, i)
  IN  IF r.ok /\ Len(r.val) = 1 /\ r.val[1] \notin {BS, QT, NL} THEN r ELSE ParseError

RECURSIVE parseMembers(_, _, _)
\* "name":value , ... } from position i, up to the end of the text
parseMembers(s, i, doc) ==
  LET name == parseName(s, i) IN
  IF ~name.ok \/ name.next > Len(s) \/ s[name.next] # ":" THEN [ok |-> FALSE, doc |-> EmptyDoc]
  ELSE
    LET f == name.val[1]
        j == name.next + 1
        isTrue == j <= Len(s) /\ s[j] = "true"
        isFive == j <= Len(s) /\ s[j] = "5"
        str == parseString(s, j)
        ok == isTrue \/ isFive \/ str.ok
        next == IF isTrue \/ isFive THEN j + 1 ELSE str.next
        value == IF isTrue THEN TRUE ELSE IF isFive THEN Five ELSE str.val
        doc2 == [g \in DOMAIN doc \cup {f} |-> IF g = f THEN value ELSE doc[g]]
    IN  IF ~ok \/ next > Len(s) THEN [ok |-> FALSE, doc |-> EmptyDoc]
        ELSE IF s[next] = "}" THEN [ok |-> next = Len(s), doc |-> doc2]
        ELSE IF s[next] = "," THEN parseMembers(s, next + 1, doc2)
        ELSE [ok |-> FALSE, doc |-> EmptyDoc]

\* JSON.parse(text), when text is a JSON object
parse(s) ==
  IF Len(s) < 2 \/ s[1] # "{" THEN [ok |-> FALSE, doc |-> EmptyDoc]
  ELSE IF s[2] = "}" THEN [ok |-> Len(s) = 2, doc |-> EmptyDoc]
  ELSE parseMembers(s, 2, EmptyDoc)

\* raw.replace('\\', '\\\\'): the first backslash of the line becomes two
replaceBackslash(raw) ==
  IF \E i \in 1..Len(raw) : raw[i] = BS
  THEN LET i == CHOOSE i \in 1..Len(raw) : raw[i] = BS /\ \A j \in 1..(i - 1) : raw[j] # BS
       IN  SubSeq(raw, 1, i) \o <<BS>> \o SubSeq(raw, i + 1, Len(raw))
  ELSE raw

RECURSIVE join(_)
\* payload.join('\n')
join(lines) ==
  IF lines = << >> THEN << >>
  ELSE IF Len(lines) = 1 THEN lines[1]
  ELSE lines[1] \o <<NL>> \o join(Tail(lines))

RECURSIVE split(_, _)
\* text.split('\n'): cur is the line being read
split(text, cur) ==
  IF text = << >> THEN <<cur>>
  ELSE IF Head(text) = NL THEN <<cur>> \o split(Tail(text), << >>)
  ELSE split(Tail(text), Append(cur, Head(text)))

----------------------------------------------------------------------------
(* load and persist *)

RECURSIVE stringifyAll(_)
\* the payload of persist: one line for each document that is not $deleted
stringifyAll(table) ==
  IF table = << >> THEN << >>
  ELSE IF Deleted(Head(table).doc) THEN stringifyAll(Tail(table))
  ELSE <<stringify(Head(table).doc)>> \o stringifyAll(Tail(table))

RECURSIVE stringifyEvery(_)
stringifyEvery(table) ==
  IF table = << >> THEN << >>
  ELSE <<stringify(Head(table).doc)>> \o stringifyEvery(Tail(table))

\* persist() without the test of $deleted
persistContentUnfiltered(table) == join(stringifyEvery(table))

\* what persist() writes for the table
persistContent(table) == join(stringifyAll(table))

RECURSIVE loadLines(_, _, _, _)
\* the loop of load() over the lines that are left
loadLines(lines, table, corrupted, isStrict) ==
  IF lines = << >>
  THEN [status |-> "returned", table |-> table, corrupted |-> corrupted]
  ELSE
    LET raw == Head(lines)
        parsed == parse(replaceBackslash(raw))
        good == parsed.ok /\ "_id" \in DOMAIN parsed.doc /\ ~Falsy(parsed.doc["_id"])
    IN  IF raw = << >> THEN loadLines(Tail(lines), table, corrupted, isStrict)
        ELSE IF good
          THEN loadLines(Tail(lines), Put(table, ToKey(parsed.doc["_id"]), parsed.doc),
                         corrupted, isStrict)
        ELSE IF isStrict
          THEN [status |-> "thrown", table |-> table, corrupted |-> corrupted]
        ELSE loadLines(Tail(lines), table, Append(corrupted, raw), isStrict)

\* load() of an existing file into the table
loadContent(table, content, isStrict) ==
  loadLines(split(content, << >>), table, << >>, isStrict)

NoFile == [exists |-> FALSE, content |-> << >>]
FileOf(content) == [exists |-> TRUE, content |-> content]

Load ==
  /\ last = NoCall
  /\ IF ~root
     THEN /\ last' = [Call("load") EXCEPT !.status = "thrown"]
          /\ UNCHANGED <<data, file>>
     ELSE IF file.exists
     THEN LET r == loadContent(data, file.content, strict)
          IN  /\ data' = r.table
              /\ last' = [Call("load") EXCEPT !.status = r.status,
                                        !.corrupted = r.corrupted]
              /\ UNCHANGED file
     ELSE /\ file' = FileOf(<< >>)
          /\ last' = Call("load")
          /\ UNCHANGED data
  /\ UNCHANGED <<root, strict>>

\* a persist that writes the file in memory mode too
persistFileAnywhere(isRoot, table, f) ==
  [status |-> "returned", file |-> FileOf(persistContent(table))]

\* persist(table): throws in memory mode, else overwrites the file
persistFile(isRoot, table, f) ==
  IF ~isRoot THEN [status |-> "thrown", file |-> f]
  ELSE [status |-> "returned", file |-> FileOf(persistContent(table))]

Persist ==
  /\ last = NoCall
  /\ LET r == persistFile(root, data, file)
     IN  /\ file' = r.file
         /\ last' = [Call("persist") EXCEPT !.status = r.status]
  /\ UNCHANGED <<root, strict, data>>

----------------------------------------------------------------------------
(* insert *)

\* Array.isArray(any) ? any : [any]
toArray(arg) == arg.items

RECURSIVE validateDocsLiveOnly(_, _, _, _)
\* a first loop that takes the identifier of a tombstoned entry as free
validateDocsLiveOnly(table, items, uid, i) ==
  IF i > Len(items) THEN [ok |-> TRUE, inserted |-> << >>]
  ELSE IF ~isObject(items[i]) THEN [ok |-> FALSE, inserted |-> << >>]
  ELSE IF isInvalidDoc(items[i].doc) THEN [ok |-> FALSE, inserted |-> << >>]
  ELSE
    LET given == items[i].doc
        newDoc == IF "_id" \notin DOMAIN given \/ Falsy(given["_id"])
                  THEN Stamp(given, uid[i]) ELSE given
        rest == validateDocsLiveOnly(table, items, uid, i + 1)
    IN  IF IsLive(table, newDoc["_id"]) THEN [ok |-> FALSE, inserted |-> << >>]
        ELSE IF rest.ok THEN [ok |-> TRUE, inserted |-> <<newDoc>> \o rest.inserted]
        ELSE rest

RECURSIVE validateDocs(_, _, _, _)
\* the first loop of insert: the documents to insert, or a rejection
validateDocs(table, items, uid, i) ==
  IF i > Len(items) THEN [ok |-> TRUE, inserted |-> << >>]
  ELSE IF ~isObject(items[i]) THEN [ok |-> FALSE, inserted |-> << >>]
  ELSE IF isInvalidDoc(items[i].doc) THEN [ok |-> FALSE, inserted |-> << >>]
  ELSE
    LET given == items[i].doc
        newDoc == IF "_id" \notin DOMAIN given \/ Falsy(given["_id"])
                  THEN Stamp(given, uid[i]) ELSE given
        rest == validateDocs(table, items, uid, i + 1)
    IN  IF Has(table, newDoc["_id"]) THEN [ok |-> FALSE, inserted |-> << >>]
        ELSE IF rest.ok THEN [ok |-> TRUE, inserted |-> <<newDoc>> \o rest.inserted]
        ELSE rest

\* a second loop that stops after the first document
storeFirstOnly(table, inserted) ==
  IF inserted = << >> THEN table
  ELSE Put(table, Head(inserted)["_id"], Head(inserted))

RECURSIVE storeDocs(_, _)
\* the second loop of insert
storeDocs(table, inserted) ==
  IF inserted = << >> THEN table
  ELSE storeDocs(Put(table, Head(inserted)["_id"], Head(inserted)), Tail(inserted))

RECURSIVE storeWhileValidating(_, _, _, _)
storeWhileValidating(table, items, uid, i) ==
  IF i > Len(items) THEN [ok |-> TRUE, table |-> table]
  ELSE IF ~isObject(items[i]) \/ isInvalidDoc(items[i].doc) THEN [ok |-> FALSE, table |-> table]
  ELSE
    LET given == items[i].doc
        newDoc == IF "_id" \notin DOMAIN given \/ Falsy(given["_id"])
                  THEN Stamp(given, uid[i]) ELSE given
    IN  IF Has(table, newDoc["_id"]) THEN [ok |-> FALSE, table |-> table]
        ELSE storeWhileValidating(Put(table, newDoc["_id"], newDoc), items, uid, i + 1)

\* insert with one loop, which stores each document as soon as it is validated
insertDocsOneLoop(table, arg, uid) ==
  IF arg.single /\ ~isObject(arg.items[1]) THEN [ok |-> FALSE, table |-> table]
  ELSE storeWhileValidating(table, toArray(arg), uid, 1)

\* the table that insert leaves, and whether it got as far as the persist step
insertDocs(table, arg, uid) ==
  IF arg.single /\ ~isObject(arg.items[1]) THEN [ok |-> FALSE, table |-> table]
  ELSE LET v == validateDocs(table, toArray(arg), uid, 1)
       IN  IF v.ok THEN [ok |-> TRUE, table |-> storeDocs(table, v.inserted)]
           ELSE [ok |-> FALSE, table |-> table]

\* an insert that persists whatever the option says
insertPersistsAlways(ok, opt) == ok

\* insert persists when it has stored the documents and the option is set
insertPersists(ok, opt) == ok /\ opt

\* Promise.resolve(): the value of a resolved insert is undefined, whatever the
\* documents it stored
insertValue(inserted) == [defined |-> FALSE, docs |-> << >>]

----------------------------------------------------------------------------
(* findById and find *)

\* what objectProject(undefined, projection) does for a projection array
AbsentOutcomes == {"undefined", "empty", "throws"}

RECURSIVE findByIdKeys(_, _, _, _, _)
\* the loop of findById from the i-th key on
findByIdKeys(table, keys, projection, absent, i) ==
  IF i > Len(keys) THEN [status |-> "resolved", payload |-> << >>]
  ELSE IF Falsy(keys[i]) THEN [status |-> "rejected", payload |-> << >>]
  ELSE IF ~Has(table, keys[i]) /\ ~projection.null /\ absent = "throws"
    THEN [status |-> "rejected", payload |-> << >>]
  ELSE
    LET found == Has(table, keys[i]) \/ (~projection.null /\ absent = "empty")
        doc == IF Has(table, keys[i]) THEN objectProject(Get(table, keys[i]), projection)
               ELSE EmptyDoc
        rest == findByIdKeys(table, keys, projection, absent, i + 1)
    IN  IF rest.status = "resolved" /\ found /\ ~Deleted(doc)
        THEN [status |-> "resolved", payload |-> <<doc>> \o rest.payload]
        ELSE rest

RECURSIVE projectAll(_, _)
\* Object.values(table).map(doc => objectProject(doc, projection))
projectAll(table, projection) ==
  IF table = << >> THEN << >>
  ELSE <<objectProject(Head(table).doc, projection)>> \o projectAll(Tail(table), projection)

RECURSIVE findMatches(_, _, _)
\* the loop of find
findMatches(table, query, projection) ==
  IF table = << >> THEN << >>
  ELSE IF ~Deleted(Head(table).doc) /\ isQueryMatch(Head(table).doc, query)
    THEN <<objectProject(Head(table).doc, projection)>>
         \o findMatches(Tail(table), query, projection)
  ELSE findMatches(Tail(table), query, projection)

findDocs(table, query, projection) ==
  IF ~isObject(query) THEN [status |-> "rejected", payload |-> << >>]
  ELSE IF isEmptyObject(query)
    THEN [status |-> "resolved", payload |-> projectAll(table, projection)]
  ELSE [status |-> "resolved", payload |-> findMatches(table, query.doc, projection)]

----------------------------------------------------------------------------
(* updateById and update *)

\* the update argument is rejected
isInvalidUpdate(update) ==
  \/ ~isObject(update)
  \/ ("_id" \in DOMAIN update.doc /\ ~Falsy(update.doc["_id"]))
  \/ hasMixedModifiers(update.doc)
  \/ (~hasModifiers(update.doc) /\ isInvalidDoc(update.doc))

\* an update without modifiers that is merged into the document
updatedDocMerged(doc, update, key) ==
  Stamp(IF hasModifiers(update) THEN objectModify(doc, update)
        ELSE [f \in DOMAIN doc \cup DOMAIN update |->
                IF f \in DOMAIN update THEN update[f] ELSE doc[f]], key)

\* the document stored for a target
updatedDoc(doc, update, key) ==
  Stamp(IF hasModifiers(update) THEN objectModify(doc, update) ELSE update, key)

RECURSIVE updateByIdKeysAnyDoc(_, _, _, _, _)
\* an updateById without the test of $deleted: updates every key that is in the table
updateByIdKeysAnyDoc(table, keys, update, projection, i) ==
  IF i > Len(keys) THEN [status |-> "resolved", table |-> table, payload |-> << >>]
  ELSE IF Falsy(keys[i]) THEN [status |-> "rejected", table |-> table, payload |-> << >>]
  ELSE IF Has(table, keys[i])
    THEN LET newDoc == updatedDoc(Get(table, keys[i]), update, keys[i])
             rest == updateByIdKeysAnyDoc(Put(table, keys[i], newDoc), keys, update,
                                          projection, i + 1)
         IN  [rest EXCEPT !.payload = <<objectProject(newDoc, projection)>> \o @]
  ELSE updateByIdKeysAnyDoc(table, keys, update, projection, i + 1)

RECURSIVE updateByIdKeys(_, _, _, _, _)
\* the loop of updateById from the i-th key on
updateByIdKeys(table, keys, update, projection, i) ==
  IF i > Len(keys) THEN [status |-> "resolved", table |-> table, payload |-> << >>]
  ELSE IF Falsy(keys[i]) THEN [status |-> "rejected", table |-> table, payload |-> << >>]
  ELSE IF IsLive(table, keys[i])
    THEN LET newDoc == updatedDoc(Get(table, keys[i]), update, keys[i])
             rest == updateByIdKeys(Put(table, keys[i], newDoc), keys, update, projection, i + 1)
         IN  [rest EXCEPT !.payload = <<objectProject(newDoc, projection)>> \o @]
  ELSE updateByIdKeys(table, keys, update, projection, i + 1)

updateByIdDocs(table, keys, update, projection) ==
  IF isInvalidUpdate(update)
  THEN [status |-> "rejected", table |-> table, payload |-> << >>]
  ELSE LET r == updateByIdKeys(table, keys, update.doc, projection, 1)
       IN  IF r.status = "resolved" THEN r ELSE [r EXCEPT !.payload = << >>]

RECURSIVE updateMatches(_, _, _, _, _)
\* the loop of update over Object.keys(this.data), from the i-th key on
updateMatches(table, query, update, projection, i) ==
  IF i > Len(table) THEN [status |-> "resolved", table |-> table, payload |-> << >>]
  ELSE IF ~Deleted(table[i].doc) /\ isQueryMatch(table[i].doc, query)
    THEN LET newDoc == updatedDoc(table[i].doc, update, table[i].key)
             rest == updateMatches(Put(table, table[i].key, newDoc), query, update,
                                   projection, i + 1)
         IN  [rest EXCEPT !.payload = <<objectProject(newDoc, projection)>> \o @]
  ELSE updateMatches(table, query, update, projection, i + 1)

updateDocs(table, query, update, projection) ==
  IF ~isObject(query) \/ isInvalidUpdate(update)
  THEN [status |-> "rejected", table |-> table, payload |-> << >>]
  ELSE updateMatches(table, query.doc, update.doc, projection, 1)

----------------------------------------------------------------------------
(* deleteById, delete and drop *)

RECURSIVE deleteByIdKeysAnyDoc(_, _, _, _)
\* deleteById without the test of $deleted: counts every key that is in the table
deleteByIdKeysAnyDoc(table, keys, deleted, i) ==
  IF i > Len(keys) THEN [status |-> "returned", table |-> table, count |-> deleted]
  ELSE IF Falsy(keys[i]) THEN [status |-> "rejected", table |-> table, count |-> 0]
  ELSE IF Has(table, keys[i])
    THEN deleteByIdKeysAnyDoc(Put(table, keys[i], Tombstone(Get(table, keys[i]))),
                              keys, deleted + 1, i + 1)
  ELSE deleteByIdKeysAnyDoc(table, keys, deleted, i + 1)

RECURSIVE deleteByIdKeys(_, _, _, _)
\* the loop of deleteById from the i-th key on
deleteByIdKeys(table, keys, deleted, i) ==
  IF i > Len(keys) THEN [status |-> "returned", table |-> table, count |-> deleted]
  ELSE IF Falsy(keys[i]) THEN [status |-> "rejected", table |-> table, count |-> 0]
  ELSE IF IsLive(table, keys[i])
    THEN deleteByIdKeys(Put(table, keys[i], Tombstone(Get(table, keys[i]))),
                        keys, deleted + 1, i + 1)
  ELSE deleteByIdKeys(table, keys, deleted, i + 1)

RECURSIVE deleteMatches(_, _, _, _)
\* the loop of delete over Object.keys(this.data), from the i-th key on
deleteMatches(table, query, removed, i) ==
  IF i > Len(table) THEN [status |-> "resolved", table |-> table, count |-> removed]
  ELSE IF ~Deleted(table[i].doc) /\ isQueryMatch(table[i].doc, query)
    THEN deleteMatches(Put(table, table[i].key, Tombstone(table[i].doc)),
                       query, removed + 1, i + 1)
  ELSE deleteMatches(table, query, removed, i + 1)

deleteDocs(table, query) ==
  IF ~isObject(query) THEN [status |-> "rejected", table |-> table, count |-> 0]
  ELSE deleteMatches(table, query.doc, 0, 1)

----------------------------------------------------------------------------
(* The arguments that callers pass *)

\* the elements of the arrays passed to insert
Elements ==
  {JSObject([_id |-> K1]),
   JSObject([_id |-> K2, v |-> <<QT>>]),
   JSObject([v |-> <<QT>>]),
   JSObject(("a.b" :> <<"x">>) @@ [_id |-> K1]),
   JSNumber}

SeqsUpTo(S, n) == UNION {[1..m -> S] : m \in 1..n}

\* newDocs: an array, or one value that is not an array
InsertArgs ==
  {[single |-> FALSE, items |-> b] : b \in SeqsUpTo(Elements, MaxBatch)}
  \cup {[single |-> TRUE, items |-> <<e>>] : e \in Elements}

\* what getUid() returns for the i-th document, where it is called
UidChoices(arg) ==
  {u \in [1..Len(arg.items) -> Keys] :
     \A i \in 1..Len(arg.items) :
       (~arg.items[i].obj \/ "_id" \in DOMAIN arg.items[i].doc) => u[i] = K1}

\* toArray(_id): strings, the empty string among them
IdArgs == SeqsUpTo(Keys \cup {EmptyString}, MaxBatch)

Projections == {NullProjection, Projection(<< >>), Projection(<<"v">>)}

\* the projections passed to update and updateById
UpdateProjections == {NullProjection, Projection(<<"v">>)}

\* objectProject(undefined, projection) is reached with a projection array and a
\* key that is not in the table
AbsentChoices(table, keys, projection) ==
  IF ~projection.null /\ \E i \in 1..Len(keys) : ~Falsy(keys[i]) /\ ~Has(table, keys[i])
  THEN AbsentOutcomes ELSE {"undefined"}

Queries == {JSObject(EmptyDoc), JSObject([v |-> <<QT>>]), JSNumber}

Updates ==
  {JSObject(EmptyDoc),
   JSObject([v |-> <<QT>>]),
   JSObject([_id |-> K2, v |-> <<QT>>]),
   JSObject([_id |-> EmptyString, v |-> <<QT>>]),
   JSObject("$set" :> [v |-> <<QT>>]),
   JSObject("$set" :> [_id |-> K2]),
   JSObject(("$set" :> [v |-> <<QT>>]) @@ [v |-> <<QT>>]),
   JSNumber}

\* the files that may be there when the instance is created
InitialFiles ==
  {NoFile,
   FileOf(join(<<stringify([_id |-> K1]),
                 << >>,
                 <<"x">>,
                 stringify([v |-> <<"x">>])>>)),
   FileOf(stringify([_id |-> Five]))}

----------------------------------------------------------------------------
(* The instance after construction, and its methods *)

Init ==
  /\ root \in BOOLEAN
  /\ strict \in BOOLEAN
  /\ last = NoCall
  /\ IF ~root THEN strict = FALSE /\ data = << >> /\ file = NoFile
     ELSE \E f \in InitialFiles, autoload \in BOOLEAN :
            IF ~autoload THEN data = << >> /\ file = f
            ELSE IF ~f.exists THEN data = << >> /\ file = FileOf(<< >>)
            ELSE LET r == loadContent(<< >>, f.content, strict)
                 IN  r.status = "returned" /\ data = r.table /\ file = f

Insert ==
  /\ last = NoCall
  /\ \E arg \in InsertArgs, opt \in BOOLEAN :
       \E uid \in UidChoices(arg) :
         LET r == insertDocs(data, arg, uid)
             p == IF insertPersists(r.ok, opt) THEN persistFile(root, r.table, file)
                  ELSE [status |-> "returned", file |-> file]
             v == IF r.ok /\ p.status = "returned"
                  THEN insertValue(validateDocs(data, toArray(arg), uid, 1).inserted)
                  ELSE [defined |-> TRUE, docs |-> << >>]
             call == [Call("insert") EXCEPT !.single = arg.single,
                                    !.items = arg.items, !.persist = opt,
                                    !.uid = uid]
         IN  /\ data' = r.table
             /\ file' = p.file
             /\ last' = [call EXCEPT !.status = IF ~r.ok THEN "rejected"
                                                ELSE IF p.status = "thrown" THEN "thrown"
                                                ELSE "resolved",
                                     !.defined = v.defined,
                                     !.result = v.docs]
  /\ UNCHANGED <<root, strict>>

FindById ==
  /\ last = NoCall
  /\ \E keys \in IdArgs, projection \in Projections :
       \E absent \in AbsentChoices(data, keys, projection) :
         LET r == findByIdKeys(data, keys, projection, absent, 1)
         IN  last' = [Call("findById") EXCEPT !.ids = keys,
                                    !.projection = projection, !.status = r.status,
                                    !.result = r.payload]
  /\ UNCHANGED <<root, strict, data, file>>

Find ==
  /\ last = NoCall
  /\ \E query \in Queries, projection \in Projections :
       LET r == findDocs(data, query, projection)
       IN  last' = [Call("find") EXCEPT !.query = query,
                                  !.projection = projection, !.status = r.status,
                                  !.result = r.payload]
  /\ UNCHANGED <<root, strict, data, file>>

UpdateById ==
  /\ last = NoCall
  /\ \E keys \in IdArgs, update \in Updates, projection \in UpdateProjections :
       LET r == updateByIdDocs(data, keys, update, projection)
       IN  /\ data' = r.table
           /\ last' = [Call("updateById") EXCEPT !.ids = keys,
                                     !.update = update, !.projection = projection,
                                     !.status = r.status, !.result = r.payload]
  /\ UNCHANGED <<root, strict, file>>

Update ==
  /\ last = NoCall
  /\ \E query \in Queries, update \in Updates, projection \in UpdateProjections :
       LET r == updateDocs(data, query, update, projection)
       IN  /\ data' = r.table
           /\ last' = [Call("update") EXCEPT !.query = query,
                                     !.update = update, !.projection = projection,
                                     !.status = r.status, !.result = r.payload]
  /\ UNCHANGED <<root, strict, file>>

DeleteById ==
  /\ last = NoCall
  /\ \E keys \in IdArgs :
       LET r == deleteByIdKeys(data, keys, 0, 1)
       IN  /\ data' = r.table
           /\ last' = [Call("deleteById") EXCEPT !.ids = keys,
                                     !.status = r.status, !.count = r.count]
  /\ UNCHANGED <<root, strict, file>>

Delete ==
  /\ last = NoCall
  /\ \E query \in Queries :
       LET r == deleteDocs(data, query)
       IN  /\ data' = r.table
           /\ last' = [Call("delete") EXCEPT !.query = query,
                                     !.status = r.status, !.count = r.count]
  /\ UNCHANGED <<root, strict, file>>

\* a drop that keeps the tombstoned entries
dropLiveOnly(table) == SelectSeq(table, LAMBDA e : Deleted(e.doc))

\* this.data = {}
dropTable(table) == << >>

Drop ==
  /\ last = NoCall
  /\ data' = dropTable(data)
  /\ file' = IF root THEN persistFile(root, dropTable(data), file).file ELSE file
  /\ last' = [Call("drop") EXCEPT !.status = "resolved"]
  /\ UNCHANGED <<root, strict>>

\* the caller takes the outcome of the call; the instance is ready for the next
Settle ==
  /\ last # NoCall
  /\ last' = NoCall
  /\ UNCHANGED <<root, strict, data, file>>

Next ==
  \/ Settle
  \/ Load
  \/ Persist
  \/ Insert
  \/ FindById
  \/ Find
  \/ UpdateById
  \/ Update
  \/ DeleteById
  \/ Delete
  \/ Drop

Spec == Init /\ [][Next]_vars

----------------------------------------------------------------------------
(* Properties *)

Resolved == last.status \in {"resolved", "returned"}

RECURSIVE ProjectEach(_, _)
ProjectEach(docs, projection) ==
  IF docs = << >> THEN << >>
  ELSE <<objectProject(Head(docs), projection)>> \o ProjectEach(Tail(docs), projection)

RECURSIVE LiveOf(_, _)
\* the live documents of the table under the keys listed, in the order listed
LiveOf(table, keys) ==
  IF keys = << >> THEN << >>
  ELSE IF IsLive(table, Head(keys)) THEN <<Get(table, Head(keys))>> \o LiveOf(table, Tail(keys))
  ELSE LiveOf(table, Tail(keys))

RECURSIVE LiveEntries(_)
\* the entries of the table whose document is not tombstoned
LiveEntries(table) ==
  IF table = << >> THEN << >>
  ELSE IF Deleted(Head(table).doc) THEN LiveEntries(Tail(table))
  ELSE <<Head(table)>> \o LiveEntries(Tail(table))

WellFormedIds(keys) == \A i \in 1..Len(keys) : ~Falsy(keys[i])

\* C1: find({}) returns exactly the live documents of the table, projected; a
\* tombstoned document never appears in its result.
C1_FindAllReturnsLiveOnly ==
  (last.op = "find" /\ last.status = "resolved" /\ isEmptyObject(last.query))
    => last.result = ProjectEach(LiveDocs(data), last.projection)

\* C2: findById resolves to the projections of the listed documents that are live:
\* a listed id whose document is tombstoned or missing adds nothing, for every
\* projection, and a missing id does not make the call fail.  (Stated for the
\* calls that the sources decide: every listed id is in the table, or the
\* projection is null.)
C2_FindByIdOmitsTombstonedAndMissing ==
  (/\ last.op = "findById"
   /\ WellFormedIds(last.ids)
   /\ (last.projection.null \/ \A i \in 1..Len(last.ids) : Has(data, last.ids[i])))
    => /\ last.status = "resolved"
       /\ last.result = ProjectEach(LiveOf(data, last.ids), last.projection)

\* C3: an insert that rejects leaves the table as it was before the call.
C3_RejectedInsertLeavesTable ==
  (last.op = "insert" /\ last.status = "rejected") => data = last.pre

\* a rejected batch whose first document is valid and new, and whose second is not
C3_Witness ==
  /\ last.op = "insert" /\ last.status = "rejected"
  /\ Len(last.items) = 2
  /\ last.items[1].obj /\ ~isInvalidDoc(last.items[1].doc)
  /\ "_id" \in DOMAIN last.items[1].doc
  /\ ~Has(last.pre, last.items[1].doc["_id"])
  /\ last.pre # << >>

\* C4: an updateById that rejects has modified no document.
C4_RejectedUpdateByIdLeavesTable ==
  (last.op = "updateById" /\ last.status = "rejected") => data = last.pre

\* C5: a deleteById that fails on a malformed id has tombstoned no document.
C5_RejectedDeleteByIdLeavesTable ==
  (last.op = "deleteById" /\ last.status = "rejected") => data = last.pre

\* C6: no call turns a tombstoned entry back into a live one.
C6_TombstoneNeverLiveAgain ==
  \A k \in TombstonedKeys(last.pre) : ~IsLive(data, k)

\* C7: the file that persist() writes loads, on a fresh instance, into exactly the
\* live documents of the table, with equal field values, and no line is corrupted.
C7_PersistThenFreshLoad ==
  (last.op = "persist" /\ last.status = "returned")
    => \A isStrict \in BOOLEAN :
         LET r == loadContent(<< >>, file.content, isStrict)
         IN  /\ r.status = "returned"
             /\ r.table = LiveEntries(data)
             /\ r.corrupted = << >>

\* C8: after persist() the file holds one line for each live document of the
\* table, in order, and nothing else.
C8_PersistWritesLiveDocsOnly ==
  (last.op = "persist" /\ last.status = "returned")
    => LET lines == split(file.content, << >>)
           live == LiveDocs(data)
       IN  /\ file.exists
           /\ IF live = << >> THEN file.content = << >>
              ELSE /\ Len(lines) = Len(live)
                   /\ \A i \in 1..Len(lines) :
                        parse(lines[i]).ok /\ parse(lines[i]).doc = live[i]

\* persist() of a table with a live and a tombstoned document, over a file that
\* held a corrupted line
C8_Witness ==
  /\ last.op = "persist" /\ last.status = "returned"
  /\ TombstonedKeys(data) # {} /\ LiveKeys(data) # {}
  /\ \E i \in 1..Len(split(last.preFile.content, << >>)) :
       split(last.preFile.content, << >>)[i] = <<"x">>

\* C9: delete and deleteById return the number of documents they moved from live
\* to tombstoned; a target that is tombstoned or missing adds 0 and changes nothing.
C9_DeleteCountsNewTombstones ==
  (last.op \in {"delete", "deleteById"} /\ Resolved)
    => LET moved == {k \in LiveKeys(last.pre) : ~IsLive(data, k)}
       IN  /\ last.count = Cardinality(moved)
           /\ \A k \in moved : Has(data, k) /\ Get(data, k) = Tombstone(Get(last.pre, k))
           /\ moved = {} => data = last.pre
           /\ \A k \in TombstonedKeys(last.pre) : Get(data, k) = Get(last.pre, k)
           /\ (last.op = "deleteById"
               /\ \A i \in 1..Len(last.ids) : ~IsLive(last.pre, last.ids[i]))
                => last.count = 0 /\ data = last.pre

\* deleteById(['k1', 'k1']) on a table where k1 is live
C9_Witness ==
  /\ last.op = "deleteById" /\ Resolved
  /\ last.ids = <<K1, K1>>
  /\ IsLive(last.pre, K1)
  /\ last.count = 1

\* C10: an update argument that carries a top-level _id is rejected without any
\* mutation, and every document is stored under its own _id after any update.
C10_UpdateNeverChangesId ==
  (last.op \in {"update", "updateById"})
    => /\ (last.update.obj /\ "_id" \in DOMAIN last.update.doc)
            => (last.status = "rejected" /\ data = last.pre)
       /\ \A i \in 1..Len(data) :
            (~Has(last.pre, data[i].key) \/ Get(last.pre, data[i].key) # data[i].doc)
              => data[i].doc["_id"] = data[i].key

\* the _id that insert gives the i-th document of the last call
InsertedId(i) ==
  LET given == last.items[i].doc
  IN  IF "_id" \in DOMAIN given /\ ~Falsy(given["_id"]) THEN given["_id"] ELSE last.uid[i]

\* the i-th document of the last call carries an _id of its own
GivenId(i) ==
  /\ last.items[i].obj
  /\ "_id" \in DOMAIN last.items[i].doc
  /\ ~Falsy(last.items[i].doc["_id"])

C12_InsertResolvesToInserted ==
  (last.op = "insert" /\ last.status = "resolved")
    => /\ last.defined
       /\ Len(last.result) = Len(last.items)
       /\ \A i \in 1..Len(last.items) :
            last.result[i] = Stamp(last.items[i].doc, InsertedId(i))

\* the live documents of the table before the last call that the call targets
Targeted ==
  IF last.op = "updateById"
  THEN {k \in LiveKeys(last.pre) : \E i \in 1..Len(last.ids) : last.ids[i] = k}
  ELSE {k \in LiveKeys(last.pre) : isQueryMatch(Get(last.pre, k), last.query.doc)}

\* C13: an update or updateById without modifiers leaves, for each targeted live
\* document, exactly the fields of the update argument plus the target's own _id.
C13_ReplacementIsWholesale ==
  (/\ last.op \in {"update", "updateById"}
   /\ last.status = "resolved"
   /\ ~hasModifiers(last.update.doc))
    => \A k \in Targeted :
         /\ Has(data, k)
         /\ Get(data, k) = Stamp(last.update.doc, k)
         /\ DOMAIN Get(data, k) = DOMAIN last.update.doc \cup {"_id"}

\* update with the argument {} of a live document that has a field v
C13_Witness ==
  /\ last.op \in {"update", "updateById"}
  /\ last.status = "resolved"
  /\ last.update = JSObject(EmptyDoc)
  /\ \E k \in Targeted : "v" \in DOMAIN Get(last.pre, k) /\ Get(data, k) = [_id |-> k]

\* C14: on an instance without root, load() and persist() throw, and the table
\* and the file are as before the call.
C14_InMemoryLoadAndPersistFail ==
  (last.op \in {"load", "persist"} /\ ~root)
    => /\ last.status = "thrown"
       /\ data = last.pre
       /\ file = last.preFile
       /\ ~file.exists

\* persist() thrown on an in-memory instance that holds a live document
C14_Witness ==
  /\ ~root
  /\ last.op = "persist" /\ last.status = "thrown"
  /\ LiveKeys(data) # {}

\* a line that is a JSON document with a non-empty _id
WellFormedLine(line) ==
  /\ parse(line).ok
  /\ "_id" \in DOMAIN parse(line).doc
  /\ ~Falsy(parse(line).doc["_id"])

\* C15: a non-strict load() of an existing file returns; each non-empty line
\* that is a JSON document with an _id is in the table under that _id and not in
\* the corrupted list; the corrupted list is the other non-empty lines, in order.
C15_NonStrictLoadSortsLines ==
  (last.op = "load" /\ root /\ ~strict /\ last.preFile.exists)
    => LET lines == split(last.preFile.content, << >>)
       IN  /\ last.status = "returned"
           /\ \A i \in 1..Len(lines) :
                (lines[i] # << >> /\ WellFormedLine(lines[i]))
                  => Has(data, ToKey(parse(lines[i]).doc["_id"]))
           /\ last.corrupted =
                SelectSeq(lines, LAMBDA l : l # << >> /\ ~WellFormedLine(l))

\* the keys of a table
KeysOf(table) == {table[i].key : i \in 1..Len(table)}

\* C16: after drop() the table is empty, every identifier of the table before
\* the drop can be inserted, and the file of a file-backed instance is empty.
C16_DropFreesEverything ==
  (last.op = "drop")
    => /\ last.status = "resolved"
       /\ data = << >>
       /\ root => (file.exists /\ file.content = << >>)
       /\ ~root => file = last.preFile
       /\ \A k \in KeysOf(last.pre) :
            insertDocs(data, [single |-> TRUE, items |-> <<JSObject([_id |-> k])>>],
                       <<K1>>).ok

\* drop() of a file-backed table with a live and a tombstoned document, over a
\* file that is not empty
C16_Witness ==
  /\ last.op = "drop" /\ root
  /\ LiveKeys(last.pre) # {} /\ TombstonedKeys(last.pre) # {}
  /\ last.preFile.content # << >>

C18_PersistThenLoadCleans ==
  (last.op = "persist" /\ last.status = "returned")
    => LET r == loadContent(data, file.content, strict)
       IN  r.status = "returned" => TombstonedKeys(r.table) = {}

\* C19: each entry of the table is stored under its document's _id, which is a
\* non-empty string, and no two entries have the same key.
C19_KeysAreDocumentIds ==
  /\ \A i \in 1..Len(data) :
       /\ "_id" \in DOMAIN data[i].doc
       /\ IsString(data[i].doc["_id"])
       /\ data[i].doc["_id"] # EmptyString
       /\ data[i].doc["_id"] = data[i].key
  /\ \A i, j \in 1..Len(data) : data[i].key = data[j].key => i = j

\* C20: an insert with a document whose _id is the identifier of a tombstoned
\* entry is rejected and leaves the table, the tombstone included, as it was.
C20_TombstonedIdIsNotFree ==
  (/\ last.op = "insert"
   /\ \E i \in 1..Len(last.items) :
        GivenId(i) /\ last.items[i].doc["_id"] \in TombstonedKeys(last.pre))
    => /\ last.status = "rejected"
       /\ data = last.pre

\* a rejected insert of valid documents, none with the identifier of a live
\* document, one with the identifier of a tombstoned entry
C20_Witness ==
  /\ last.op = "insert" /\ last.status = "rejected"
  /\ \A i \in 1..Len(last.items) :
       /\ GivenId(i)
       /\ ~isInvalidDoc(last.items[i].doc)
       /\ ~IsLive(last.pre, last.items[i].doc["_id"])
  /\ \E i \in 1..Len(last.items) :
       last.items[i].doc["_id"] \in TombstonedKeys(last.pre)

\* the live entries of the table before the last call that the call names: by an
\* id of its list, or by a query that the document matches
TargetedKeys ==
  IF last.op \in {"updateById", "deleteById"}
  THEN {k \in LiveKeys(last.pre) : \E i \in 1..Len(last.ids) : last.ids[i] = k}
  ELSE IF last.query.obj
  THEN {k \in LiveKeys(last.pre) : isQueryMatch(Get(last.pre, k), last.query.doc)}
  ELSE {}

\* C21: update, updateById, delete and deleteById keep the keys of the table and
\* their order, and leave every tombstoned entry and every live entry that is not
\* targeted as it was, whatever the outcome of the call.
C21_UntargetedEntriesUnchanged ==
  (last.op \in {"update", "updateById", "delete", "deleteById"})
    => /\ Len(data) = Len(last.pre)
       /\ \A i \in 1..Len(data) : data[i].key = last.pre[i].key
       /\ \A i \in 1..Len(data) :
            data[i].key \notin TargetedKeys => data[i].doc = last.pre[i].doc

\* an updateById that changes a document of a table that also holds a tombstoned
\* entry whose id is in the list
C21_Witness ==
  /\ last.op = "updateById" /\ last.status = "resolved"
  /\ data # last.pre
  /\ \E i \in 1..Len(last.ids) : last.ids[i] \in TombstonedKeys(last.pre)

\* C22: after a resolved insert of n documents the table has n more live entries
\* than before, one under the _id of each document, also when two documents of
\* the batch carry the same _id.  (Stated for calls in which getUid returns no
\* identifier that another document of the batch has.)
C22_InsertAddsOneEntryEach ==
  (/\ last.op = "insert" /\ last.status = "resolved"
   /\ \A i, j \in 1..Len(last.items) :
        (i # j /\ ~(GivenId(i) /\ GivenId(j))) => InsertedId(i) # InsertedId(j))
    => /\ Cardinality(LiveKeys(data)) = Cardinality(LiveKeys(last.pre)) + Len(last.items)
       /\ \A i \in 1..Len(last.items) : IsLive(data, InsertedId(i))

\* C23: an insert that ends in an error, rejected or thrown, leaves the table as
\* it was before the call.
C23_FailedInsertLeavesTable ==
  (last.op = "insert" /\ last.status \in {"rejected", "thrown"}) => data = last.pre

\* C24: a load() that throws in strict mode leaves the table as it was before the
\* call.
C24_StrictLoadFailureLeavesTable ==
  (last.op = "load" /\ root /\ strict /\ last.status = "thrown") => data = last.pre

====
